---- MODULE Spec2Model ----
(***************************************************************************)
(* Model of packages/backend/src/lib/langchain-adapter.ts.                 *)
(*                                                                         *)
(* LangChainAdapter.streamResult wraps the reader of an upstream           *)
(* IterableReadableStream in a ReadableStream whose pull() loops over      *)
(* reader.read(); SingleChunkReadableStream enqueues one chunk and the     *)
(* [DONE] record from start().  The output ReadableStream itself is the    *)
(* WHATWG default controller (queue, closeRequested, pulling, pullAgain,   *)
(* pending read requests), modelled here step by step because the claims   *)
(* depend on when enqueue()/close() throw and on what error() discards.    *)
(*                                                                         *)
(* Optional values (undefined or a value) are sequences of length <= 1.    *)
(***************************************************************************)
EXTENDS Naturals, Sequences, FiniteSets, TLC

VARIABLES adapt, log, result, phase, out, reader, pc, lastRead, cleanupAwait,
          cancelled, pullCalls, pullThrew, cancelRaised

vars == <<adapt, log, result, phase, out, reader, pc, lastRead, cleanupAwait,
          cancelled, pullCalls, pullThrew, cancelRaised>>

----------------------------------------------------------------------------
(* Bounds of the model *)

\* longest upstream fragment sequence
MaxFrags == 2

\* most consumer read() calls left pending at one time
MaxPendingReads == 1

\* longest message history of a request
MaxTurns == 2

----------------------------------------------------------------------------
(* Inputs *)

Undefined == <<>>

Some(v) == <<v>>

\* lc_kwargs.content of a fragment or message: undefined or a string
ContentValues == {Undefined, Some("a"), Some("b")}

\* a function_call descriptor: undefined or {name, arguments}
FunctionCallValues == {Undefined, Some([name |-> "f", arguments |-> "{}"])}

\* a BaseMessageChunk, reduced to the two fields the adapter reads
BaseMessageChunk == [content : ContentValues, function_call : FunctionCallValues]

RECURSIVE SeqsUpTo(_, _)
SeqsUpTo(S, n) ==
  IF n = 0 THEN {<<>>}
  ELSE LET shorter == SeqsUpTo(S, n - 1)
       IN  shorter \cup {Append(s, x) : s \in {t \in shorter : Len(t) = n - 1}, x \in S}

NoUnit == [content |-> Undefined, function_call |-> Undefined]

\* the three shapes of LangChainReturnType
LangChainReturnType ==
  [kind : {"stream"}, frags : SeqsUpTo(BaseMessageChunk, MaxFrags),
   ending : {"eos", "fail"}, unit : {NoUnit}]
  \cup
  [kind : {"message"}, frags : {<<>>}, ending : {"eos"}, unit : BaseMessageChunk]
  \cup
  [kind : {"string"}, frags : {<<>>}, ending : {"eos"},
   unit : [content : {Some(""), Some("a")}, function_call : {Undefined}]]

\* what awaiting chainFn(forwardedProps) can give: one of the three shapes,
\* a value of no known shape ("invalid"), or a throw/rejection ("reject")
ChainFnOutcomes ==
  LangChainReturnType
  \cup
  [kind : {"invalid", "reject"}, frags : {<<>>}, ending : {"eos"}, unit : {NoUnit}]

\* forwardedProps.messages[i]
Roles == {"user", "assistant", "system", "tool"}

Turns == [role : Roles, content : {"x", "y"}]

\* forwardedProps: messages (absent or an array) and the other fields
Requests ==
  [hasMessages : {TRUE}, messages : SeqsUpTo(Turns, MaxTurns), other : {"opts"}]
  \cup
  [hasMessages : {FALSE}, messages : {<<>>}, other : {"opts"}]

\* the request of the runs that exercise the streams
SampleRequest ==
  [hasMessages |-> TRUE,
   messages |-> <<[role |-> "tool", content |-> "x"], [role |-> "user", content |-> "y"]>>,
   other |-> "opts"]

----------------------------------------------------------------------------
(* LangChainAdapter.stream: transformProps, chainFn, classification *)

\* variant: the "system" branch is missing
ToLangChainMessage_NoSystem(message) ==
  IF message.role = "user"
  THEN Some([type |-> "HumanMessage", content |-> message.content])
  ELSE IF message.role = "assistant"
  THEN Some([type |-> "AIMessage", content |-> message.content])
  ELSE Undefined

\* new HumanMessage / AIMessage / SystemMessage (content); Undefined for a
\* role that no branch matches
ToLangChainMessage(message) ==
  IF message.role = "user"
  THEN Some([type |-> "HumanMessage", content |-> message.content])
  ELSE IF message.role = "assistant"
  THEN Some([type |-> "AIMessage", content |-> message.content])
  ELSE IF message.role = "system"
  THEN Some([type |-> "SystemMessage", content |-> message.content])
  ELSE Undefined

\* for (const message of forwardedProps.messages) { ... newMessages.push(...) }
RECURSIVE NewMessages(_)
NewMessages(messages) ==
  IF messages = <<>> THEN <<>>
  ELSE ToLangChainMessage(Head(messages)) \o NewMessages(Tail(messages))

\* transformProps: a shallow copy whose messages are replaced when
\* forwardedProps.messages is an array
TransformProps(forwardedProps) ==
  IF forwardedProps.hasMessages
  THEN [forwardedProps EXCEPT !.messages = NewMessages(forwardedProps.messages)]
  ELSE forwardedProps

\* variant: no final throw, any other value is sent as one chunk
Classify_NoThrow(r) ==
  IF r.kind = "stream" THEN "streamResult" ELSE "single"

\* the if / else if chain over the value chainFn resolved with
Classify(r) ==
  IF r.kind = "stream" THEN "streamResult"
  ELSE IF r.kind = "message" THEN "single"
  ELSE IF r.kind = "string" THEN "single"
  ELSE "throw"

\* variant: a rejection of chainFn is caught and answered with an empty chunk
AwaitChain_Caught(r) == IF r.kind = "reject" THEN "single" ELSE Classify(r)

\* const result = await this.chainFn(forwardedProps): a rejection leaves
\* stream() at the await, nothing catches it
AwaitChain(r) == IF r.kind = "reject" THEN "reject" ELSE Classify(r)

NewAdapt(props) ==
  [props |-> props, forwarded |-> Undefined, chainCalls |-> 0, error |-> "none",
   readerAcquired |-> FALSE]

----------------------------------------------------------------------------
(* Wire frames *)

\* "data: [DONE]\n\n"
DonePayload ==
  [type |-> "done", role |-> "", content |-> Undefined, function_call |-> Undefined]

\* "data: " + JSON.stringify({choices:[{delta:{role, content, function_call?}}]}) + "\n\n"
\* JSON.stringify leaves out a key whose value is undefined; the spread adds
\* function_call only when the descriptor is truthy.
ChunkPayload(content, functionCall) ==
  [type |-> "content", role |-> "assistant", content |-> content,
   function_call |-> IF functionCall # Undefined THEN functionCall ELSE Undefined]

\* variant: the function_call of the fragment is not copied into the frame
EncodeFragment_NoFunctionCall(value) == ChunkPayload(value.content, Undefined)

\* pull(): functionCall and content of a fragment read from the upstream
EncodeFragment(value) == ChunkPayload(value.content, value.function_call)

\* variant: no default for the content parameter
EncodeSingle_NoDefault(unit) == ChunkPayload(unit.content, unit.function_call)

\* SingleChunkReadableStream: content defaults to "" when undefined
EncodeSingle(unit) ==
  ChunkPayload(IF unit.content = Undefined THEN Some("") ELSE unit.content,
               unit.function_call)

----------------------------------------------------------------------------
(* The output ReadableStream and its default controller *)

\* new ReadableStream(source) with no strategy: highWaterMark 1, size() = 1
HighWaterMark == 1

NewStream ==
  [state |-> "readable", queue |-> <<>>, closeRequested |-> FALSE,
   started |-> FALSE, pulling |-> FALSE, pullAgain |-> FALSE,
   readRequests |-> 0, delivered |-> <<>>, outcome |-> "open",
   enqueued |-> <<>>, reads |-> 0, storedError |-> "none"]

CanCloseOrEnqueue(s) == ~s.closeRequested /\ s.state = "readable"

ShouldCallPull(s) ==
  /\ CanCloseOrEnqueue(s)
  /\ s.started
  /\ (s.readRequests > 0 \/ Len(s.queue) < HighWaterMark)

\* pull() is invoked by this call of ReadableStreamDefaultControllerCallPullIfNeeded
InvokesPull(s) == ShouldCallPull(s) /\ ~s.pulling

CallPullIfNeeded(s) ==
  IF ~ShouldCallPull(s) THEN s
  ELSE IF s.pulling THEN [s EXCEPT !.pullAgain = TRUE]
  ELSE [s EXCEPT !.pulling = TRUE]

\* ReadableStreamClose: pending read requests resolve with done
ReadableStreamClose(s) ==
  [s EXCEPT !.state = "closed",
            !.outcome = IF s.readRequests > 0 /\ s.outcome = "open" THEN "done" ELSE @,
            !.readRequests = 0]

\* controller.enqueue(chunk), for a controller that can enqueue
ControllerEnqueue(s, chunk) ==
  LET t == IF s.readRequests > 0
           THEN [s EXCEPT !.readRequests = @ - 1, !.delivered = Append(@, chunk)]
           ELSE [s EXCEPT !.queue = Append(@, chunk)]
  IN  CallPullIfNeeded([t EXCEPT !.enqueued = Append(@, chunk)])

\* controller.close(), for a controller that can close
ControllerClose(s) ==
  LET t == [s EXCEPT !.closeRequested = TRUE]
  IN  IF t.queue = <<>> THEN ReadableStreamClose(t) ELSE t

\* controller.error(e): nothing unless readable; drops the queue, stores e
ControllerError(s, e) ==
  IF s.state # "readable" THEN s
  ELSE [s EXCEPT !.state = "errored", !.queue = <<>>, !.storedError = e,
                 !.outcome = IF s.readRequests > 0 /\ s.outcome = "open" THEN "error" ELSE @,
                 !.readRequests = 0]

----------------------------------------------------------------------------
(* The upstream reader: streamedChain.getReader() *)

NewReader ==
  [state |-> "readable", pos |-> 0, settled |-> "none",
   readsIssued |-> 0, outstanding |-> 0, cancelCalls |-> 0]

\* reader.read() called
IssueRead(r) ==
  [r EXCEPT !.readsIssued = @ + 1, !.outstanding = @ + 1, !.settled = "none"]

\* pull() resumes from await reader.read()
ReadResumed(r) == [r EXCEPT !.outstanding = @ - 1]

\* the upstream answers no more reads than this; no run of pull() gets there
MaxReads == MaxFrags + 2

\* outcomes of the promise of reader.cancel(): TRUE is a rejection
CancelRejections(r) ==
  IF r.state = "errored" THEN {TRUE}
  ELSE IF r.state = "closed" THEN {FALSE}
  ELSE BOOLEAN

\* reader.cancel() called: the upstream closes unless closed or errored
ReaderCancel(r) ==
  [r EXCEPT !.cancelCalls = @ + 1,
            !.state = IF @ = "readable" THEN "closed" ELSE @]

----------------------------------------------------------------------------
(* cleanup(controller?) *)

\* variant: cleanup never closes the sink
CleanupClose_NoClose(s, hasController) == s

\* if (controller) { try { controller.close() } catch (_) {} }
CleanupClose(s, hasController) ==
  IF hasController /\ CanCloseOrEnqueue(s) THEN ControllerClose(s) ELSE s

\* controller.close() threw inside cleanup
CloseThrows(s, hasController) == hasController /\ ~CanCloseOrEnqueue(s)

\* variant: the reader is cancelled inside the try block of controller.close()
CleanupCancelsReader_UnlessCloseThrew(closeThrew) == ~closeThrew

\* if (reader) { try { await reader.cancel() } catch (_) {} }; reader is
\* assigned once from getReader() and is always truthy
CleanupCancelsReader(closeThrew) == TRUE

CleanupReader(r, closeThrew) ==
  IF CleanupCancelsReader(closeThrew) THEN ReaderCancel(r) ELSE r

\* variant: no try/catch around await reader.cancel()
CleanupRejects_CancelUncaught(closeThrew, cancelRejected) == cancelRejected

\* what cleanup(controller?) does, in the order of its statements
CleanupLog(s, hasController) ==
  (IF ~hasController THEN <<>>
   ELSE IF CloseThrows(s, hasController) THEN <<"closeThrew">> ELSE <<"closeSink">>)
  \o
  (IF CleanupCancelsReader(CloseThrows(s, hasController))
   THEN <<"cancelReader">> ELSE <<>>)

\* the promise of cleanup() rejects: both failures are caught
CleanupRejects(closeThrew, cancelRejected) == FALSE

----------------------------------------------------------------------------
(* Initial state: the value chainFn resolved with, before a stream is built *)

NoAwait == [closeThrew |-> FALSE, cancelRejected |-> FALSE]

\* everything but the request and the outcome of chainFn
InitRest ==
  /\ phase = "init"
  /\ log = <<>>
  /\ out = NewStream
  /\ reader = NewReader
  /\ pc = "idle"
  /\ lastRead = "none"
  /\ cleanupAwait = NoAwait
  /\ cancelled = FALSE
  /\ pullCalls = 0
  /\ pullThrew = FALSE
  /\ cancelRaised = FALSE

Init ==
  /\ result \in ChainFnOutcomes
  /\ adapt = NewAdapt(SampleRequest)
  /\ InitRest

\* stream(forwardedProps) up to its await: transformProps, then chainFn
Stream ==
  /\ phase = "init"
  /\ phase' = "new"
  /\ adapt' = [adapt EXCEPT !.forwarded = Some(TransformProps(adapt.props)),
                            !.chainCalls = @ + 1]
  /\ UNCHANGED <<log, result, out, reader, pc, lastRead, cleanupAwait, cancelled,
                 pullCalls, pullThrew, cancelRaised>>

\* chainFn threw or rejected: stream() rejects with that failure
ChainRejects ==
  /\ phase = "new"
  /\ AwaitChain(result) = "reject"
  /\ phase' = "rejected"
  /\ adapt' = [adapt EXCEPT !.error = "upstream"]
  /\ UNCHANGED <<log, result, out, reader, pc, lastRead, cleanupAwait, cancelled,
                 pullCalls, pullThrew, cancelRaised>>

\* throw new Error("Invalid return type from LangChain function.")
InvalidReturn ==
  /\ phase = "new"
  /\ AwaitChain(result) = "throw"
  /\ phase' = "rejected"
  /\ adapt' = [adapt EXCEPT !.error = "invalid"]
  /\ UNCHANGED <<log, result, out, reader, pc, lastRead, cleanupAwait, cancelled,
                 pullCalls, pullThrew, cancelRaised>>

----------------------------------------------------------------------------
(* Construction *)

\* streamResult(): getReader(), then new ReadableStream({pull, cancel})
StreamResult ==
  /\ phase = "new"
  /\ AwaitChain(result) = "streamResult"
  /\ phase' = "open"
  /\ out' = NewStream
  /\ reader' = NewReader
  /\ adapt' = [adapt EXCEPT !.readerAcquired = TRUE]
  /\ UNCHANGED <<log, result, pc, lastRead, cleanupAwait, cancelled, pullCalls,
                 pullThrew, cancelRaised>>

\* variant: start() without controller.close()
SingleChunkStart_NoClose(s, unit) ==
  ControllerEnqueue(ControllerEnqueue(s, EncodeSingle(unit)), DonePayload)

\* SingleChunkReadableStream.start(controller)
SingleChunkStart(s, unit) ==
  ControllerClose(
    ControllerEnqueue(ControllerEnqueue(s, EncodeSingle(unit)), DonePayload))

\* new SingleChunkReadableStream(content, functionCall): start() runs in super()
SingleChunkReadableStream ==
  /\ phase = "new"
  /\ AwaitChain(result) = "single"
  /\ phase' = "open"
  /\ out' = SingleChunkStart(NewStream, result.unit)
  /\ UNCHANGED <<adapt, log, result, reader, pc, lastRead, cleanupAwait, cancelled,
                 pullCalls, pullThrew, cancelRaised>>

----------------------------------------------------------------------------
(* Calls of the underlying source's pull() by the controller *)

\* s: the stream just before ReadableStreamDefaultControllerCallPullIfNeeded.
\* pull() runs synchronously up to its first await, the first reader.read();
\* SingleChunkReadableStream has no pull(), its pull algorithm returns at once.
AfterCallPull(s) ==
  /\ out' = CallPullIfNeeded(s)
  /\ IF InvokesPull(s)
     THEN /\ pullCalls' = pullCalls + 1
          /\ IF result.kind = "stream"
             THEN pc' = "awaitRead" /\ reader' = IssueRead(reader)
             ELSE pc' = "returned" /\ UNCHANGED reader
     ELSE UNCHANGED <<pullCalls, pc, reader>>

\* the promise of start() has resolved
StartDone ==
  /\ phase = "open"
  /\ ~out.started
  /\ AfterCallPull([out EXCEPT !.started = TRUE])
  /\ UNCHANGED <<adapt, log, result, phase, lastRead, cleanupAwait, cancelled, pullThrew,
                 cancelRaised>>

----------------------------------------------------------------------------
(* The downstream consumer *)

\* reader.read() on the output stream
ConsumerRead ==
  /\ phase = "open"
  /\ out.outcome = "open"
  /\ out.readRequests < MaxPendingReads
  /\ LET s == [out EXCEPT !.reads = @ + 1]
     IN  IF s.state = "closed"
         THEN out' = [s EXCEPT !.outcome = "done"]
              /\ UNCHANGED <<pullCalls, pc, reader>>
         ELSE IF s.state = "errored"
         THEN out' = [s EXCEPT !.outcome = "error"]
              /\ UNCHANGED <<pullCalls, pc, reader>>
         ELSE IF s.queue # <<>>
         THEN LET t == [s EXCEPT !.queue = Tail(@),
                                 !.delivered = Append(@, Head(s.queue))]
              IN  IF t.closeRequested /\ t.queue = <<>>
                  THEN out' = ReadableStreamClose(t)
                       /\ UNCHANGED <<pullCalls, pc, reader>>
                  ELSE AfterCallPull(t)
         ELSE AfterCallPull([s EXCEPT !.readRequests = @ + 1])
  /\ UNCHANGED <<adapt, log, result, phase, lastRead, cleanupAwait, cancelled, pullThrew,
                 cancelRaised>>

\* variant: a cancel() handler that does no cleanup
CancelCallsCleanup_Never(kind) == FALSE

\* the source's cancel() handler calls cleanup() (stream-pull mode);
\* SingleChunkReadableStream's cancel() {} does nothing
CancelCallsCleanup(kind) == kind = "stream"

\* reader.cancel() on the output stream: ReadableStreamCancel
ConsumerCancel ==
  /\ phase = "open"
  /\ ~cancelled
  /\ cancelled' = TRUE
  /\ IF out.state = "readable"
     THEN /\ out' = [ReadableStreamClose(out) EXCEPT !.queue = <<>>]
          /\ IF CancelCallsCleanup(result.kind)
             THEN /\ reader' = CleanupReader(reader, FALSE)
                  /\ log' = log \o CleanupLog(out, FALSE)
                  /\ \E rej \in CancelRejections(reader) :
                       cancelRaised' = (cancelRaised \/ CleanupRejects(FALSE, rej))
             ELSE UNCHANGED <<reader, cancelRaised, log>>
     ELSE UNCHANGED <<out, reader, cancelRaised, log>>
  /\ UNCHANGED <<adapt, result, phase, pc, lastRead, cleanupAwait, pullCalls, pullThrew>>

----------------------------------------------------------------------------
(* The upstream *)

\* the promise of the pending reader.read() settles
UpstreamSettle ==
  /\ pc = "awaitRead"
  /\ reader.settled = "none"
  /\ reader.readsIssued <= MaxReads
  /\ reader' =
       IF reader.state = "closed" THEN [reader EXCEPT !.settled = "done"]
       ELSE IF reader.state = "errored" THEN [reader EXCEPT !.settled = "fail"]
       ELSE IF reader.pos < Len(result.frags)
       THEN [reader EXCEPT !.settled = "frag", !.pos = @ + 1]
       ELSE IF result.ending = "eos"
       THEN [reader EXCEPT !.settled = "done", !.state = "closed"]
       ELSE [reader EXCEPT !.settled = "fail", !.state = "errored"]
  /\ UNCHANGED <<adapt, log, result, phase, out, pc, lastRead, cleanupAwait, cancelled,
                 pullCalls, pullThrew, cancelRaised>>

----------------------------------------------------------------------------
(* pull(controller) *)

\* variant: an enqueue that accepts chunks whatever the state of the stream
EnqueueThrows_Never(s) == FALSE

\* controller.enqueue(payload) throws a TypeError inside the try block
EnqueueThrows(s) == ~CanCloseOrEnqueue(s)

\* variant: the catch block runs cleanup before it reports the error
CatchPath_CleanupFirst(s, error) ==
  LET closeThrew == CloseThrows(s, TRUE)
      s1 == CleanupClose(s, TRUE)
  IN  /\ out' = ControllerError(s1, error)
      /\ reader' = CleanupReader(ReadResumed(reader), closeThrew)
      /\ log' = log \o CleanupLog(s, TRUE) \o <<"error">>
      /\ \E rej \in CancelRejections(reader) :
           cleanupAwait' = [closeThrew |-> closeThrew, cancelRejected |-> rej]
      /\ pc' = "awaitCleanup"

\* catch (error) { controller.error(error); await cleanup(controller); return }
CatchPath(s, error) ==
  LET s1 == ControllerError(s, error)
      closeThrew == CloseThrows(s1, TRUE)
  IN  /\ out' = CleanupClose(s1, TRUE)
      /\ reader' = CleanupReader(ReadResumed(reader), closeThrew)
      /\ log' = log \o <<"error">> \o CleanupLog(s1, TRUE)
      /\ \E rej \in CancelRejections(reader) :
           cleanupAwait' = [closeThrew |-> closeThrew, cancelRejected |-> rej]
      /\ pc' = "awaitCleanup"

\* after controller.enqueue(payload) of a fragment: while (true) reads again
ReadsAgainAfterEnqueue == TRUE

\* the awaited read resolved with { done: false, value }
PullOnFragment ==
  /\ pc = "awaitRead"
  /\ reader.settled = "frag"
  /\ lastRead' = "frag"
  /\ IF ~EnqueueThrows(out)
     THEN /\ out' = ControllerEnqueue(out, EncodeFragment(result.frags[reader.pos]))
          /\ IF ReadsAgainAfterEnqueue
             THEN pc' = "awaitRead" /\ reader' = IssueRead(ReadResumed(reader))
             ELSE pc' = "returned"
                  /\ reader' = [ReadResumed(reader) EXCEPT !.settled = "none"]
          /\ UNCHANGED <<cleanupAwait, log>>
     ELSE CatchPath(out, "TypeError")
  /\ UNCHANGED <<adapt, result, phase, cancelled, pullCalls, pullThrew, cancelRaised>>

\* variant: the sentinel enqueued twice
DoneFrames_Twice == <<DonePayload, DonePayload>>

\* variant: no sentinel enqueued
DoneFrames_None == <<>>

\* the frames the done branch enqueues before cleanup
DoneFrames == <<DonePayload>>

RECURSIVE EnqueueAll(_, _)
EnqueueAll(s, chunks) ==
  IF chunks = <<>> THEN s
  ELSE EnqueueAll(ControllerEnqueue(s, Head(chunks)), Tail(chunks))

\* the awaited read resolved with { done: true }
PullOnDone ==
  /\ pc = "awaitRead"
  /\ reader.settled = "done"
  /\ lastRead' = "done"
  /\ IF ~EnqueueThrows(out)
     THEN LET s1 == EnqueueAll(out, DoneFrames)
              closeThrew == CloseThrows(s1, TRUE)
          IN  /\ out' = CleanupClose(s1, TRUE)
              /\ reader' = CleanupReader(ReadResumed(reader), closeThrew)
              /\ log' = log \o <<"enqueueDone">> \o CleanupLog(s1, TRUE)
              /\ \E rej \in CancelRejections(reader) :
                   cleanupAwait' = [closeThrew |-> closeThrew, cancelRejected |-> rej]
              /\ pc' = "awaitCleanup"
     ELSE CatchPath(out, "TypeError")
  /\ UNCHANGED <<adapt, result, phase, cancelled, pullCalls, pullThrew, cancelRaised>>

\* the awaited read rejected
PullOnFailure ==
  /\ pc = "awaitRead"
  /\ reader.settled = "fail"
  /\ lastRead' = "fail"
  /\ CatchPath(out, "readError")
  /\ UNCHANGED <<adapt, result, phase, cancelled, pullCalls, pullThrew, cancelRaised>>

\* variant: no return after await cleanup(controller), the loop goes on
ReturnsAfterCleanup_Never == FALSE

\* await cleanup(controller) is followed by return, in the done branch and
\* in the catch block
ReturnsAfterCleanup == TRUE

\* the promise of reader.cancel() awaited by cleanup(controller) settles;
\* cleanup returns and pull returns
CleanupSettles ==
  /\ pc = "awaitCleanup"
  /\ IF ReturnsAfterCleanup
     THEN pc' = "returned" /\ UNCHANGED reader
     ELSE pc' = "awaitRead" /\ reader' = IssueRead(reader)
  /\ pullThrew' = (pullThrew \/
                   CleanupRejects(cleanupAwait.closeThrew, cleanupAwait.cancelRejected))
  /\ UNCHANGED <<adapt, log, result, phase, out, lastRead, cleanupAwait, cancelled,
                 pullCalls, cancelRaised>>

\* the controller's reaction to the fulfilled promise of pull()
PullReturns ==
  /\ pc = "returned"
  /\ LET s == [out EXCEPT !.pulling = FALSE, !.pullAgain = FALSE]
     IN  IF out.pullAgain /\ InvokesPull(s)
         THEN AfterCallPull(s)
         ELSE out' = s /\ pc' = "idle" /\ UNCHANGED <<pullCalls, reader>>
  /\ UNCHANGED <<adapt, log, result, phase, lastRead, cleanupAwait, cancelled, pullThrew,
                 cancelRaised>>

----------------------------------------------------------------------------

Next ==
  \/ Stream
  \/ ChainRejects
  \/ InvalidReturn
  \/ StreamResult
  \/ SingleChunkReadableStream
  \/ StartDone
  \/ ConsumerRead
  \/ ConsumerCancel
  \/ UpstreamSettle
  \/ PullOnFragment
  \/ PullOnDone
  \/ PullOnFailure
  \/ CleanupSettles
  \/ PullReturns

Spec == Init /\ [][Next]_vars

\* The event loop runs every continuation that is ready; every upstream
\* read and cancel settles; the consumer keeps reading.  Nothing obliges the
\* consumer to cancel.
Fairness ==
  /\ WF_vars(StartDone)
  /\ WF_vars(ConsumerRead)
  /\ WF_vars(UpstreamSettle)
  /\ WF_vars(PullOnFragment)
  /\ WF_vars(PullOnDone)
  /\ WF_vars(PullOnFailure)
  /\ WF_vars(CleanupSettles)
  /\ WF_vars(PullReturns)

FairSpec == Spec /\ Fairness

----------------------------------------------------------------------------
(* The request transformation over every bounded request *)

TransformOutcomes ==
  {r \in ChainFnOutcomes :
     \/ r.kind \in {"invalid", "reject"}
     \/ r.kind = "string" /\ r.unit.content = Some("a")}

InitTransform ==
  /\ result \in TransformOutcomes
  /\ adapt \in {NewAdapt(props) : props \in Requests}
  /\ InitRest

NextTransform ==
  \/ Stream
  \/ ChainRejects
  \/ InvalidReturn
  \/ SingleChunkReadableStream
  \/ StartDone
  \/ ConsumerRead
  \/ ConsumerCancel

SpecTransform == InitTransform /\ [][NextTransform]_vars

----------------------------------------------------------------------------
(* Vocabulary of the properties *)

StreamPull == result.kind = "stream" /\ phase = "open"

SingleShot == result.kind \in {"message", "string"} /\ phase = "open"

DoneCount(frames) == Cardinality({i \in 1..Len(frames) : frames[i] = DonePayload})

\* the frame a fragment is to be encoded as: role "assistant", its content,
\* its function-call descriptor
ExpectedFrame(f) ==
  [type |-> "content", role |-> "assistant", content |-> f.content,
   function_call |-> f.function_call]

ExpectedFrames(fs) == [i \in 1..Len(fs) |-> ExpectedFrame(fs[i])]

IsPrefix(p, q) == Len(p) <= Len(q) /\ \A i \in 1..Len(p) : p[i] = q[i]

Terminated == out.state \in {"closed", "errored"}

----------------------------------------------------------------------------
(* Properties *)

\* C1: in both modes the frames enqueued on the output stream hold at most
\* one [DONE] frame, and no frame is enqueued after it.
C1_AtMostOneDoneAndLast ==
  /\ DoneCount(out.enqueued) <= 1
  /\ \A i \in 1..Len(out.enqueued) :
       out.enqueued[i] = DonePayload => i = Len(out.enqueued)

\* C1 witness: a stream-pull stream that enqueued its fragments and [DONE],
\* whose pull has returned, and that the consumer then cancelled.
C1_Witness ==
  /\ StreamPull
  /\ Len(out.enqueued) = Len(result.frags) + 1
  /\ Len(result.frags) > 0
  /\ out.enqueued[Len(out.enqueued)] = DonePayload
  /\ pc = "idle"
  /\ cancelled

\* C2: stream-pull, upstream f1..fn then end-of-sequence, no cancel: what
\* the consumer has observed is always a prefix of the n encoded fragments
\* followed by [DONE], and once it observes the end it has observed all of
\* them, in order, and the stream is closed.
C2_FifoThenDone ==
  (StreamPull /\ result.ending = "eos" /\ ~cancelled) =>
    /\ IsPrefix(out.delivered, ExpectedFrames(result.frags) \o <<DonePayload>>)
    /\ out.outcome # "error"
    /\ out.outcome = "done" =>
         /\ out.delivered = ExpectedFrames(result.frags) \o <<DonePayload>>
         /\ out.state = "closed"

\* C2 witness: two fragments and [DONE] were observed, then the end.
C2_Witness ==
  /\ StreamPull /\ result.ending = "eos" /\ ~cancelled
  /\ Len(result.frags) = 2
  /\ result.frags[1] # result.frags[2]
  /\ out.outcome = "done"
  /\ Len(out.delivered) = 3

C4_CleanupOnEveryExit ==
  (StreamPull /\ Terminated /\ pc = "idle") => reader.cancelCalls >= 1

\* C4 witness: the consumer cancelled before any pull, and the reader was
\* cancelled.
C4_Witness ==
  /\ StreamPull /\ cancelled /\ Terminated /\ pc = "idle"
  /\ pullCalls = 0
  /\ reader.cancelCalls >= 1

\* C5 (as claimed): the cancel of the upstream reader is attempted at most
\* once over the life of a stream-pull stream.
C5_ReleaseExactlyOnce ==
  StreamPull => reader.cancelCalls <= 1

\* C6 (as claimed): when the consumer observes the stream error it has
\* observed every content frame of the fragments read before the failure,
\* in order.
C6_FramesBeforeErrorKept ==
  (StreamPull /\ out.outcome = "error") =>
    out.delivered = ExpectedFrames(SubSeq(result.frags, 1, reader.pos))

\* C7: once the consumer has cancelled a stream-pull stream, no frame is
\* enqueued, queued or delivered any more.
C7_NoFrameAfterCancel ==
  [][(StreamPull /\ cancelled) =>
       /\ out'.enqueued = out.enqueued
       /\ out'.delivered = out.delivered
       /\ out'.queue = <<>>]_vars

\* C7 witness: the cancel arrived while a pull awaited a read; the read
\* resolved with a fragment, nothing was enqueued and the pull went on to
\* its cleanup.
C7_Witness ==
  /\ StreamPull /\ cancelled
  /\ lastRead = "frag"
  /\ pc = "awaitCleanup"
  /\ reader.cancelCalls = 2
  /\ Len(out.enqueued) < reader.pos

C9_NoReadAheadOfDemand ==
  [][(StreamPull /\ reader'.readsIssued > reader.readsIssued) =>
       (out'.readRequests > 0 \/ Len(out'.queue) < HighWaterMark)]_vars

\* C10: single-shot mode enqueues exactly two frames, a content frame then
\* [DONE], and requests the close in the same step; pull is never called;
\* a consumer that reads to the end observes exactly those two frames and
\* the stream is then closed.
C10_SingleShotTwoFrames ==
  SingleShot =>
    /\ Len(out.enqueued) = 2
    /\ out.enqueued[1].type = "content"
    /\ out.enqueued[2] = DonePayload
    /\ out.closeRequested
    /\ pullCalls = 0
    /\ IsPrefix(out.delivered, out.enqueued)
    /\ (out.outcome = "done" /\ ~cancelled) =>
         (out.delivered = out.enqueued /\ out.state = "closed")

\* C10 witness: a single message with a function call, read to the end.
C10_Witness ==
  /\ SingleShot /\ result.kind = "message"
  /\ result.unit.function_call # Undefined
  /\ out.started
  /\ out.outcome = "done" /\ ~cancelled
  /\ Len(out.delivered) = 2

\* C11: when chainFn throws or rejects, stream() rejects with that
\* failure, no output stream is built (no reader acquired, no frame
\* enqueued, no pull), and chainFn is called exactly once, never again.
C11_ChainFailureRejects ==
  /\ adapt.chainCalls <= 1
  /\ phase # "init" => adapt.chainCalls = 1
  /\ result.kind = "reject" =>
       /\ phase \in {"init", "new", "rejected"}
       /\ phase = "rejected" => adapt.error = "upstream"
       /\ out = NewStream
       /\ ~adapt.readerAcquired
       /\ pullCalls = 0

\* C11 witness: stream() has rejected with the failure of chainFn.
C11_Witness ==
  /\ result.kind = "reject"
  /\ phase = "rejected"
  /\ adapt.error = "upstream"
  /\ adapt.chainCalls = 1

\* C12: an upstream stream is routed to stream-pull mode (a reader is
\* acquired, nothing is enqueued at construction), a message or a string to
\* single-shot mode (no reader, both frames enqueued at construction); any
\* other value makes stream() fail with the invalid-result error, with no
\* stream and no reader.
C12_ClassifyAndRoute ==
  /\ phase = "open" =>
       /\ result.kind \in {"stream", "message", "string"}
       /\ result.kind = "stream" <=> adapt.readerAcquired
       /\ result.kind \in {"message", "string"} <=> (pullCalls = 0 /\ out.closeRequested
                                                      /\ Len(out.enqueued) = 2)
       /\ adapt.error = "none"
  /\ result.kind = "invalid" =>
       /\ phase \in {"init", "new", "rejected"}
       /\ phase = "rejected" => adapt.error = "invalid"
       /\ out = NewStream
       /\ ~adapt.readerAcquired

\* C12 witness: a value of no known shape made stream() fail.
C12_Witness ==
  /\ result.kind = "invalid"
  /\ phase = "rejected"
  /\ adapt.error = "invalid"

\* the positions of the turns with a recognised role
KeptTurns(messages) ==
  {i \in 1..Len(messages) : messages[i].role \in {"user", "assistant", "system"}}

MessageTypeOf(role) ==
  CASE role = "user" -> "HumanMessage"
    [] role = "assistant" -> "AIMessage"
    [] role = "system" -> "SystemMessage"

\* C13: the request handed to chainFn holds exactly the turns with role
\* user, assistant or system, each as its message type with its content, in
\* their original order; the other turns are dropped; the other fields and
\* the caller's request are unchanged.
C13_TransformedRequest ==
  adapt.forwarded # Undefined =>
    LET given == adapt.props.messages
        sent == adapt.forwarded[1].messages
        kept == KeptTurns(given)
    IN  /\ adapt.forwarded[1].other = adapt.props.other
        /\ adapt.forwarded[1].hasMessages = adapt.props.hasMessages
        /\ Len(sent) = Cardinality(kept)
        /\ \A i \in kept :
             LET k == Cardinality({j \in kept : j <= i})
             IN  sent[k] = [type |-> MessageTypeOf(given[i].role),
                            content |-> given[i].content]

\* C13 witness: a request with a tool turn and a system turn was handed
\* over without the tool turn.
C13_Witness ==
  /\ adapt.forwarded # Undefined
  /\ Len(adapt.props.messages) >= 2
  /\ \E i \in 1..Len(adapt.props.messages) : adapt.props.messages[i].role = "tool"
  /\ \E i \in 1..Len(adapt.props.messages) : adapt.props.messages[i].role = "system"
  /\ Len(adapt.forwarded[1].messages) = Len(adapt.props.messages) - 1

\* C14 (as claimed): after an upstream read has failed the output stream is
\* errored and carries the read error.
C14_ErroredAfterReadFailure ==
  (StreamPull /\ lastRead = "fail") =>
    (out.state = "errored" /\ out.storedError = "readError")

\* C14 (amended): after an upstream read has failed the output stream is
\* errored with the read error, unless the consumer had cancelled it before,
\* and then it stays closed with no error; an errored stream stays errored
\* with the same error, whatever cleanup does, and nothing is enqueued on it.
C14_ErrorKeptUnlessCancelledFirst ==
  [][/\ lastRead' = "fail" =>
          \/ out'.state = "errored" /\ out'.storedError = "readError"
          \/ cancelled' /\ out'.state = "closed" /\ out'.storedError = "none"
     /\ out.state = "errored" =>
          /\ out'.state = "errored"
          /\ out'.storedError = out.storedError
          /\ out'.enqueued = out.enqueued
          /\ out'.queue = <<>>]_vars

\* C14 witness: a read failed after a frame was enqueued, cleanup ran (its
\* close threw) and pull returned; the stream is errored.
C14_Witness ==
  /\ StreamPull /\ lastRead = "fail"
  /\ out.state = "errored" /\ out.storedError = "readError"
  /\ Len(out.enqueued) >= 1
  /\ cleanupAwait.closeThrew
  /\ pc = "idle" /\ pullCalls = 1

\* C15 (as claimed): on end-of-sequence the upstream reader is released
\* before completion is signalled downstream: every close of the sink is
\* preceded by a cancel of the reader.
C15_ReleaseBeforeCompletion ==
  StreamPull =>
    \A i \in 1..Len(log) :
      log[i] = "closeSink" => \E j \in 1..(i - 1) : log[j] = "cancelReader"

\* C16 (as claimed): one upstream read and at most one frame per call of
\* pull: reads issued and frames enqueued never exceed the calls of pull.
C16_OneReadPerPull ==
  StreamPull =>
    /\ reader.readsIssued <= pullCalls
    /\ Len(out.enqueued) <= pullCalls

\* C17: every content frame has role "assistant" and the content of its
\* source unit, and a function_call exactly when the unit has a descriptor,
\* equal to it; single-shot mode with no content uses the empty string.
C17_FrameContents ==
  /\ StreamPull =>
       \A i \in 1..Len(out.enqueued) :
         out.enqueued[i].type = "content" =>
           /\ i <= Len(result.frags)
           /\ out.enqueued[i].role = "assistant"
           /\ out.enqueued[i].content = result.frags[i].content
           /\ out.enqueued[i].function_call = result.frags[i].function_call
  /\ SingleShot =>
       /\ out.enqueued[1].type = "content"
       /\ out.enqueued[1].role = "assistant"
       /\ out.enqueued[1].content =
            (IF result.unit.content = Undefined THEN Some("") ELSE result.unit.content)
       /\ out.enqueued[1].function_call = result.unit.function_call

\* C17 witness: a single message with a function call and no content gave a
\* frame with the empty string and the descriptor.
C17_Witness ==
  /\ SingleShot
  /\ result.unit.content = Undefined
  /\ result.unit.function_call # Undefined
  /\ out.enqueued[1].content = Some("")
  /\ out.enqueued[1].function_call = result.unit.function_call

\* C18: whenever pull runs cleanup(controller), the cancel of the upstream
\* reader is attempted, also when controller.close() throws.
C18_CancelDespiteCloseFailure ==
  [][(pc = "awaitRead" /\ pc' = "awaitCleanup") =>
       /\ reader'.cancelCalls = reader.cancelCalls + 1
       /\ log'[Len(log')] = "cancelReader"]_vars

\* C18 witness: cleanup(controller) saw controller.close() throw and went on
\* to cancel the reader.
C18_Witness ==
  /\ StreamPull
  /\ pc = "awaitCleanup"
  /\ cleanupAwait.closeThrew
  /\ Len(log) >= 2
  /\ log[Len(log) - 1] = "closeThrew"
  /\ log[Len(log)] = "cancelReader"

\* C19: under fair scheduling, with reads and cancels that settle and a
\* consumer that keeps reading, a stream-pull stream reaches a terminal
\* state (closed or errored) with its pull returned.
C19_Termination ==
  StreamPull ~> (Terminated /\ pc = "idle")

\* C19 witness: fragments and end-of-sequence were read by the one pull,
\* which has returned, and the drained stream is closed.
C19_Witness ==
  /\ StreamPull /\ ~cancelled
  /\ Len(result.frags) >= 1
  /\ lastRead = "done"
  /\ out.state = "closed"
  /\ pc = "idle" /\ pullCalls = 1
  /\ reader.readsIssued = Len(result.frags) + 1

\* C20: once the consumer has cancelled a stream-pull stream no upstream
\* read is issued and nothing is enqueued; a pull in flight goes from its
\* read to its cleanup and returns; at most one upstream read is outstanding
\* at any time.
C20_NoReadAfterCancel ==
  [][/\ (StreamPull /\ cancelled) =>
          /\ reader'.readsIssued = reader.readsIssued
          /\ out'.enqueued = out.enqueued
          /\ pc = "awaitRead" => pc' \in {"awaitRead", "awaitCleanup"}
          /\ pc = "awaitCleanup" => pc' \in {"awaitCleanup", "returned"}
          /\ pc = "returned" => pc' \in {"returned", "idle"}
     /\ reader'.outstanding <= 1]_vars

\* C20 witness: the cancel came while the first read was awaited; the read
\* gave a fragment, nothing was enqueued, no further read was issued and the
\* pull has returned.
C20_Witness ==
  /\ StreamPull /\ cancelled
  /\ Len(result.frags) = 2
  /\ lastRead = "frag"
  /\ out.enqueued = <<>>
  /\ reader.readsIssued = 1
  /\ pc = "idle" /\ pullCalls = 1

====
